---- MODULE Spec2Model ----
(***************************************************************************)
(* pojopoly: the dispatch registry ProtocolState.implMap, the registration *)
(* functions produced by generateRegisterImpl, and the resolver getImpl.   *)
(***************************************************************************)
EXTENDS Integers, Sequences, FiniteSets, TLC

VARIABLES
    implMap,        \* ProtocolState.implMap : Map<ProtocolKey, Map<SubTypeId, class>>
    objs,           \* the plain records of the application, by reference
    heap,           \* the implementation instances built by `new ImplClass(obj)`
    last,           \* the last call made and its outcome
    lastRegistered, \* history: per (protocolKey, subTypeId), the class of the
                    \* last registration call that returned normally
    superseded,     \* history: when the last call and the call before it are
                    \* registrations for one pair through two registration
                    \* functions, the earlier call
    answered        \* history: the getImpl call that threw right before the
                    \* registration of the class it missed, kept while that
                    \* call is repeated right after the registration

vars == <<implMap, objs, heap, last, lastRegistered, superseded, answered>>

\* Bound on the number of instances the resolver may build in one behaviour.
MaxInstances == 2

----------------------------------------------------------------------------
(* JavaScript values that can stand where a SubTypeId is expected.          *)

Undefined == [type |-> "undefined", s |-> "", n |-> 0]
Str(s) == [type |-> "string", s |-> s, n |-> 0]
Num(n) == [type |-> "number", s |-> "", n |-> n]

\* `!v` for a string, a number or undefined
Falsy(v) == v = Undefined \/ v = Str("") \/ v = Num(0)

\* v.toString() for a string or a number
toString(v) == IF v.type = "string" THEN v.s ELSE ToString(v.n)

\* Symbol(description): every call yields a symbol equal only to itself
Symbol(id, description) == [sym |-> id, description |-> description]

\* symbol.toString()
symbolToString(k) == "Symbol(" \o k.description \o ")"

ListableKey == Symbol(1, "MyApp.Listable")
PrintableKey == Symbol(2, "MyApp.Printable")
ProtocolKeys == {ListableKey, PrintableKey}

\* the discriminant field names passed to getImpl
SubTypingKeys == {"type", "kind"}

----------------------------------------------------------------------------
(* Implementation classes: subclasses of ImplBase with a static subtypeId.  *)

Class(name, subtypeId) == [name |-> name, subtypeId |-> subtypeId]

\* two implementations that declare the same discriminant value, the string '1'
ImplForStringOne == Class("ImplForStringOne", Str("1"))
ImplForStringOneAgain == Class("ImplForStringOneAgain", Str("1"))
\* an implementation that declares the number 1
ImplForNumberOne == Class("ImplForNumberOne", Num(1))
\* ImplBase declares `static subtypeId` without a value
ImplBase == Class("ImplBase", Undefined)
ImplWithEmptyId == Class("ImplWithEmptyId", Str(""))
ImplWithZeroId == Class("ImplWithZeroId", Num(0))

ImplClasses ==
    { ImplForStringOne, ImplForStringOneAgain, ImplForNumberOne,
      ImplBase, ImplWithEmptyId, ImplWithZeroId }

----------------------------------------------------------------------------
(* The records dispatched on.                                               *)

\* a record tagged at 'type' and at 'kind', a record of another shape that
\* has the same 'kind' and no 'type', and a record whose 'type' no
\* implementation declares and that has no 'kind'
InitialObjs ==
    <<  [type |-> Str("1"), kind |-> Num(1), ary |-> Str("1,2,3")],
        [kind |-> Num(1), rec |-> Str("a:1")],
        [type |-> Str("unregistered-obj")]  >>

ObjRefs == DOMAIN InitialObjs

\* obj[key] : a property the object lacks reads as undefined
GetProp(o, key) == IF key \in DOMAIN o THEN o[key] ELSE Undefined

----------------------------------------------------------------------------
(* Map operations.                                                          *)

MapHas(m, k) == k \in DOMAIN m
MapSet(m, k, v) == [x \in DOMAIN m \cup {k} |-> IF x = k THEN v ELSE m[x]]
NewMap == <<>>

----------------------------------------------------------------------------
(* Outcomes of calls.                                                       *)

NoError == [name |-> "", message |-> ""]
Error(message) == [name |-> "Error", message |-> message]
\* the fault of reading a property of undefined
TypeError == [name |-> "TypeError", message |-> "Cannot read properties of undefined"]

\* a call that returns no instance (void, or a throw) carries the reference 0
Returned(map, hp, ref) ==
    [threw |-> FALSE, error |-> NoError, value |-> ref, implMap |-> map, heap |-> hp]
Threw(map, hp, e) ==
    [threw |-> TRUE, error |-> e, value |-> 0, implMap |-> map, heap |-> hp]

----------------------------------------------------------------------------
(* The errors the library throws.                                           *)

SubtypeIdMissing == Error("Implementation class must have static property \"subtypeId\"")
ProtocolNotFound(protocolKey) ==
    Error("Protocol <" \o symbolToString(protocolKey) \o "> not found")
ImplementationNotFound(subtypeId) ==
    Error("Implementation <" \o toString(subtypeId) \o "> not found")

----------------------------------------------------------------------------
(* registerImpl(protocolKey, subTypeId, impl): the registry after the call. *)

\* slip: the class already stored for the pair is kept
registerImpl_KeepFirst(map, protocolKey, subTypeId, impl) ==
    LET subtypeMap == IF MapHas(map, protocolKey) THEN map[protocolKey] ELSE NewMap
    IN  IF MapHas(subtypeMap, subTypeId) THEN map
        ELSE MapSet(map, protocolKey, MapSet(subtypeMap, subTypeId, impl))

\* slip: the class is stored in the sub-mapping of every protocol present
registerImpl_AllProtocols(map, protocolKey, subTypeId, impl) ==
    [k \in DOMAIN map \cup {protocolKey} |->
        MapSet(IF MapHas(map, k) THEN map[k] ELSE NewMap, subTypeId, impl)]

\* slip: a new sub-mapping is made on every call
registerImpl_FreshSubmap(map, protocolKey, subTypeId, impl) ==
    MapSet(map, protocolKey, MapSet(NewMap, subTypeId, impl))

\* slip: the new sub-mapping is never put into implMap
registerImpl_NoLazyCreate(map, protocolKey, subTypeId, impl) ==
    IF MapHas(map, protocolKey)
    THEN MapSet(map, protocolKey, MapSet(map[protocolKey], subTypeId, impl))
    ELSE map

\* slip: the sub-mapping is keyed by the printed form of the value, as the
\* properties of a plain object are
registerImpl_StringKey(map, protocolKey, subTypeId, impl) ==
    LET subtypeMap == IF MapHas(map, protocolKey) THEN map[protocolKey] ELSE NewMap
    IN  MapSet(map, protocolKey, MapSet(subtypeMap, Str(toString(subTypeId)), impl))

registerImpl(map, protocolKey, subTypeId, impl) ==
    LET subtypeMap == IF MapHas(map, protocolKey) THEN map[protocolKey] ELSE NewMap
    IN  MapSet(map, protocolKey, MapSet(subtypeMap, subTypeId, impl))

(* generateRegisterImpl(protocolKey)(impl): the call of the closure         *)

\* slip: the subtypeId check is left out
generateRegisterImpl_NoCheck(map, hp, protocolKey, impl) ==
    Returned(registerImpl(map, protocolKey, impl.subtypeId, impl), hp, 0)

generateRegisterImpl(map, hp, protocolKey, impl) ==
    IF Falsy(impl.subtypeId)
    THEN Threw(map, hp, SubtypeIdMissing)
    ELSE Returned(registerImpl(map, protocolKey, impl.subtypeId, impl), hp, 0)

(* getImpl(protocolKey, subTypingKey, obj)                                  *)

\* slip: the discriminant is read from the field 'type' whatever subTypingKey is
getImpl_FixedField(map, os, hp, protocolKey, subTypingKey, obj) ==
    LET subtypeId == GetProp(os[obj], "type")
    IN  IF ~MapHas(map, protocolKey)
        THEN Threw(map, hp, ProtocolNotFound(protocolKey))
        ELSE IF ~MapHas(map[protocolKey], subtypeId)
        THEN IF subtypeId = Undefined
             THEN Threw(map, hp, TypeError)
             ELSE Threw(map, hp, ImplementationNotFound(subtypeId))
        ELSE Returned(map,
                      Append(hp, [class |-> map[protocolKey][subtypeId], v |-> obj]),
                      Len(hp) + 1)

\* slip: a missing sub-mapping is treated as an empty one
getImpl_NoProtocolCheck(map, os, hp, protocolKey, subTypingKey, obj) ==
    LET subtypeId == GetProp(os[obj], subTypingKey)
        subtypeMap == IF MapHas(map, protocolKey) THEN map[protocolKey] ELSE NewMap
    IN  IF ~MapHas(subtypeMap, subtypeId)
        THEN IF subtypeId = Undefined
             THEN Threw(map, hp, TypeError)
             ELSE Threw(map, hp, ImplementationNotFound(subtypeId))
        ELSE Returned(map,
                      Append(hp, [class |-> subtypeMap[subtypeId], v |-> obj]),
                      Len(hp) + 1)

\* slip: the sub-mapping of an unknown protocol is created before the throw
getImpl_CreatesSubmap(map, os, hp, protocolKey, subTypingKey, obj) ==
    LET subtypeId == GetProp(os[obj], subTypingKey)
    IN  IF ~MapHas(map, protocolKey)
        THEN Threw(MapSet(map, protocolKey, NewMap), hp, ProtocolNotFound(protocolKey))
        ELSE IF ~MapHas(map[protocolKey], subtypeId)
        THEN IF subtypeId = Undefined
             THEN Threw(map, hp, TypeError)
             ELSE Threw(map, hp, ImplementationNotFound(subtypeId))
        ELSE Returned(map,
                      Append(hp, [class |-> map[protocolKey][subtypeId], v |-> obj]),
                      Len(hp) + 1)

\* slip: the instance built for a record is kept and handed out again
getImpl_Cached(map, os, hp, protocolKey, subTypingKey, obj) ==
    LET subtypeId == GetProp(os[obj], subTypingKey)
    IN  IF ~MapHas(map, protocolKey)
        THEN Threw(map, hp, ProtocolNotFound(protocolKey))
        ELSE IF ~MapHas(map[protocolKey], subtypeId)
        THEN IF subtypeId = Undefined
             THEN Threw(map, hp, TypeError)
             ELSE Threw(map, hp, ImplementationNotFound(subtypeId))
        ELSE IF \E i \in DOMAIN hp : hp[i].v = obj
        THEN Returned(map, hp, CHOOSE i \in DOMAIN hp : hp[i].v = obj)
        ELSE Returned(map,
                      Append(hp, [class |-> map[protocolKey][subtypeId], v |-> obj]),
                      Len(hp) + 1)

\* slip: a failed lookup is remembered for the record (here as a marker in
\* the heap) and answered again without reading the registry
getImpl_RemembersFailure(map, os, hp, protocolKey, subTypingKey, obj) ==
    LET subtypeId == GetProp(os[obj], subTypingKey)
        marker == [class |-> Class("ImplBase", Undefined), v |-> obj]
        remembered == \E i \in DOMAIN hp : hp[i] = marker
    IN  IF remembered \/ ~MapHas(map, protocolKey)
        THEN Threw(map, IF remembered THEN hp ELSE Append(hp, marker),
                   ProtocolNotFound(protocolKey))
        ELSE IF ~MapHas(map[protocolKey], subtypeId)
        THEN IF subtypeId = Undefined
             THEN Threw(map, Append(hp, marker), TypeError)
             ELSE Threw(map, Append(hp, marker), ImplementationNotFound(subtypeId))
        ELSE Returned(map,
                      Append(hp, [class |-> map[protocolKey][subtypeId], v |-> obj]),
                      Len(hp) + 1)

\* slip: the instance is built on a copy of the record, a new object
getImpl_CopiesRecord(map, os, hp, protocolKey, subTypingKey, obj) ==
    LET subtypeId == GetProp(os[obj], subTypingKey)
    IN  IF ~MapHas(map, protocolKey)
        THEN Threw(map, hp, ProtocolNotFound(protocolKey))
        ELSE IF ~MapHas(map[protocolKey], subtypeId)
        THEN IF subtypeId = Undefined
             THEN Threw(map, hp, TypeError)
             ELSE Threw(map, hp, ImplementationNotFound(subtypeId))
        ELSE Returned(map,
                      Append(hp, [class |-> map[protocolKey][subtypeId], v |-> Len(os) + 1]),
                      Len(hp) + 1)

\* slip: a record that has no field 'type' is refused as not being a variant
getImpl_ChecksShape(map, os, hp, protocolKey, subTypingKey, obj) ==
    LET subtypeId == GetProp(os[obj], subTypingKey)
    IN  IF ~MapHas(map, protocolKey)
        THEN Threw(map, hp, ProtocolNotFound(protocolKey))
        ELSE IF ~MapHas(map[protocolKey], subtypeId)
        THEN IF subtypeId = Undefined
             THEN Threw(map, hp, TypeError)
             ELSE Threw(map, hp, ImplementationNotFound(subtypeId))
        ELSE IF GetProp(os[obj], "type") = Undefined
        THEN Threw(map, hp, ImplementationNotFound(subtypeId))
        ELSE Returned(map,
                      Append(hp, [class |-> map[protocolKey][subtypeId], v |-> obj]),
                      Len(hp) + 1)

getImpl(map, os, hp, protocolKey, subTypingKey, obj) ==
    LET subtypeId == GetProp(os[obj], subTypingKey)
    IN  IF ~MapHas(map, protocolKey)
        THEN Threw(map, hp, ProtocolNotFound(protocolKey))
        ELSE IF ~MapHas(map[protocolKey], subtypeId)
        \* the message is built with subtypeId.toString(), which faults on undefined
        THEN IF subtypeId = Undefined
             THEN Threw(map, hp, TypeError)
             ELSE Threw(map, hp, ImplementationNotFound(subtypeId))
        \* new ImplClass(obj): a new instance, referred to by its place in the heap
        ELSE Returned(map,
                      Append(hp, [class |-> map[protocolKey][subtypeId], v |-> obj]),
                      Len(hp) + 1)

----------------------------------------------------------------------------
(* The registration functions the protocol modules export.                  *)

\* slip: every generated function registers under a key of its own, made from
\* the description of the key it was given
Registrar_OwnKey(id, protocolKey) ==
    [fn |-> id, protocolKey |-> Symbol(10 * protocolKey.sym + id, protocolKey.description)]

Registrar(id, protocolKey) == [fn |-> id, protocolKey |-> protocolKey]

Registrars ==
    { Registrar(1, ListableKey), Registrar(2, ListableKey), Registrar(3, PrintableKey) }

NoCall ==
    [op |-> "none", fn |-> 0, impl |-> ImplBase, protocolKey |-> ListableKey,
     subTypingKey |-> "", obj |-> 0, threw |-> FALSE, error |-> NoError, value |-> 0]

RegisterCall(r, impl, out) ==
    [op |-> "registerImpl", fn |-> r.fn, impl |-> impl, protocolKey |-> r.protocolKey,
     subTypingKey |-> "", obj |-> 0, threw |-> out.threw, error |-> out.error,
     value |-> 0]

GetImplCall(protocolKey, subTypingKey, obj, out) ==
    [op |-> "getImpl", fn |-> 0, impl |-> ImplBase, protocolKey |-> protocolKey,
     subTypingKey |-> subTypingKey, obj |-> obj, threw |-> out.threw,
     error |-> out.error, value |-> out.value]

----------------------------------------------------------------------------

Init ==
    /\ implMap = NewMap
    /\ objs = InitialObjs
    /\ heap = <<>>
    /\ last = NoCall
    /\ lastRegistered = <<>>
    /\ superseded = NoCall
    /\ answered = NoCall

\* Listable.registerImpl(Impl) / Printable.registerImpl(Impl)
Register(r, impl) ==
    LET out == generateRegisterImpl(implMap, heap, r.protocolKey, impl)
    IN  /\ implMap' = out.implMap
        /\ heap' = out.heap
        /\ last' = RegisterCall(r, impl, out)
        /\ lastRegistered' =
             IF out.threw THEN lastRegistered
             ELSE MapSet(lastRegistered, <<r.protocolKey, impl.subtypeId>>, impl)
        /\ superseded' =
             IF /\ ~out.threw
                /\ last.op = "registerImpl" /\ ~last.threw
                /\ last.protocolKey = r.protocolKey
                /\ last.impl.subtypeId = impl.subtypeId
                /\ last.fn # r.fn
             THEN last ELSE NoCall
        /\ answered' =
             IF /\ ~out.threw
                /\ last.op = "getImpl" /\ last.threw
                /\ last.protocolKey = r.protocolKey
                /\ GetProp(objs[last.obj], last.subTypingKey) = impl.subtypeId
             THEN last ELSE NoCall
        /\ UNCHANGED objs

\* getImpl(pKey, sKey, obj)
Resolve(protocolKey, subTypingKey, obj) ==
    LET out == getImpl(implMap, objs, heap, protocolKey, subTypingKey, obj)
    IN  /\ Len(out.heap) <= MaxInstances
        /\ implMap' = out.implMap
        /\ heap' = out.heap
        /\ last' = GetImplCall(protocolKey, subTypingKey, obj, out)
        /\ superseded' = NoCall
        /\ answered' =
             IF /\ last.op = "registerImpl"
                /\ answered.op = "getImpl"
                /\ answered.protocolKey = protocolKey
                /\ answered.subTypingKey = subTypingKey
                /\ answered.obj = obj
             THEN answered ELSE NoCall
        /\ UNCHANGED <<objs, lastRegistered>>

Next ==
    \/ \E r \in Registrars, impl \in ImplClasses : Register(r, impl)
    \/ \E protocolKey \in ProtocolKeys, subTypingKey \in SubTypingKeys, obj \in ObjRefs :
         Resolve(protocolKey, subTypingKey, obj)

Spec == Init /\ [][Next]_vars

----------------------------------------------------------------------------
(* State functions used to state the properties.                            *)

\* the outcome a getImpl call would have in the current state
resolve(protocolKey, subTypingKey, obj) ==
    getImpl(implMap, objs, heap, protocolKey, subTypingKey, obj)

\* the value a record holds at the discriminant field
discriminant(subTypingKey, obj) == GetProp(objs[obj], subTypingKey)

\* the instance a call returned
instanceOf(out) == out.heap[out.value]

\* the (protocolKey, subTypeId) pairs of the entries of the registry
Entries(map) == UNION { { <<k, id>> : id \in DOMAIN map[k] } : k \in DOMAIN map }

\* the protocol keys for which a registration call has returned normally
RegisteredProtocols == { p[1] : p \in DOMAIN lastRegistered }

\* the last call was getImpl on a record holding the value of a registered pair
LastResolvedRegistered ==
    /\ last.op = "getImpl"
    /\ <<last.protocolKey, discriminant(last.subTypingKey, last.obj)>> \in DOMAIN lastRegistered

----------------------------------------------------------------------------
(* C1. Round trip: for every (protocol, discriminant value) pair that has   *)
(* been registered, getImpl on a record holding that value at the           *)
(* discriminant field returns an instance of the class most recently        *)
(* registered for the pair, built on that record.                           *)

RoundTrip ==
    /\ \A pair \in DOMAIN lastRegistered, subTypingKey \in SubTypingKeys, obj \in ObjRefs :
         discriminant(subTypingKey, obj) = pair[2] =>
           LET out == resolve(pair[1], subTypingKey, obj)
           IN  /\ ~out.threw
               /\ instanceOf(out) = [class |-> lastRegistered[pair], v |-> obj]
    /\ LastResolvedRegistered =>
         /\ ~last.threw
         /\ heap[last.value] =
              [class |-> lastRegistered[<<last.protocolKey,
                                          discriminant(last.subTypingKey, last.obj)>>],
               v |-> last.obj]

\* a record resolved through the field 'kind' to the class registered for the number 1
RoundTripWitness ==
    /\ LastResolvedRegistered
    /\ last.subTypingKey = "kind"
    /\ ~last.threw
    /\ heap[last.value].class = ImplForNumberOne
    /\ MapHas(implMap[last.protocolKey], Str("1"))

----------------------------------------------------------------------------
(* C2. Unregistered variant: when the protocol has a registered class but   *)
(* none for the value read from the record, getImpl throws the error        *)
(* 'Implementation <value> not found', whatever the value read, also when   *)
(* the record has no such field; it never returns.                          *)

\* the printed form of a value inside a template literal
Printed(v) == IF v = Undefined THEN "undefined" ELSE toString(v)

VariantNotFound(v) == Error("Implementation <" \o Printed(v) \o "> not found")

UnregisteredVariantFails ==
    (/\ last.op = "getImpl"
     /\ MapHas(implMap, last.protocolKey)
     /\ DOMAIN implMap[last.protocolKey] # {}
     /\ ~MapHas(implMap[last.protocolKey], discriminant(last.subTypingKey, last.obj)))
    => (/\ last.threw
        /\ last.error = VariantNotFound(discriminant(last.subTypingKey, last.obj)))

----------------------------------------------------------------------------
(* C3. Unregistered protocol: getImpl with a protocol key for which no      *)
(* registration has ever succeeded throws 'Protocol <key> not found',       *)
(* whatever the record; that error is none of the 'Implementation <value>   *)
(* not found' errors; every getImpl on the empty registry fails this way.   *)

DiscriminantValues ==
    { discriminant(subTypingKey, obj) : subTypingKey \in SubTypingKeys, obj \in ObjRefs }

UnregisteredProtocolFails ==
    /\ \A protocolKey \in ProtocolKeys \ RegisteredProtocols,
          subTypingKey \in SubTypingKeys, obj \in ObjRefs :
         LET out == resolve(protocolKey, subTypingKey, obj)
         IN  /\ out.threw
             /\ out.error = ProtocolNotFound(protocolKey)
             /\ \A v \in DiscriminantValues : out.error # VariantNotFound(v)
    /\ (last.op = "getImpl" /\ last.protocolKey \notin RegisteredProtocols) =>
         (last.threw /\ last.error = ProtocolNotFound(last.protocolKey))
    /\ (last.op = "getImpl" /\ implMap = NewMap) =>
         (last.threw /\ last.error = ProtocolNotFound(last.protocolKey))

\* Printable has no class while Listable has one, and a record whose value
\* Listable knows was resolved under Printable
UnregisteredProtocolWitness ==
    /\ last.op = "getImpl"
    /\ last.protocolKey = PrintableKey
    /\ RegisteredProtocols = {ListableKey}
    /\ MapHas(implMap[ListableKey], discriminant(last.subTypingKey, last.obj))
    /\ last.error = ProtocolNotFound(PrintableKey)

----------------------------------------------------------------------------
(* C4. Malformed descriptor: a registration function called with a class    *)
(* that declares no subtypeId throws and leaves the registry as it was, so  *)
(* the registry never holds such a class and no instance of one is built.   *)

MalformedRegistrationStep ==
    (last'.op = "registerImpl" /\ last'.impl.subtypeId = Undefined) =>
        /\ last'.threw
        /\ last'.error = SubtypeIdMissing
        /\ implMap' = implMap

NoMalformedEntry ==
    /\ \A p \in Entries(implMap) :
         p[2] # Undefined /\ implMap[p[1]][p[2]].subtypeId # Undefined
    /\ \A i \in DOMAIN heap : heap[i].class.subtypeId # Undefined

MalformedRejected == [][MalformedRegistrationStep]_vars /\ []NoMalformedEntry

\* ImplBase was refused by a registration function of Listable while the
\* registry already held entries
MalformedRejectedWitness ==
    /\ last.op = "registerImpl"
    /\ last.impl = ImplBase
    /\ last.threw
    /\ Entries(implMap) # {}
    /\ MapHas(implMap, last.protocolKey)

----------------------------------------------------------------------------
(* C5. Last registration wins: registering a class for a pair that already  *)
(* has one does not throw and replaces the class; every getImpl for the     *)
(* pair after it returns an instance of the class registered last.          *)

ReRegistrationStep ==
    (/\ last'.op = "registerImpl"
     /\ <<last'.protocolKey, last'.impl.subtypeId>> \in Entries(implMap))
    => /\ ~last'.threw
       /\ MapHas(implMap', last'.protocolKey)
       /\ MapHas(implMap'[last'.protocolKey], last'.impl.subtypeId)
       /\ implMap'[last'.protocolKey][last'.impl.subtypeId] = last'.impl

ResolvedToLatest ==
    (last.op = "getImpl" /\ ~last.threw) =>
        LET pair == <<last.protocolKey, discriminant(last.subTypingKey, last.obj)>>
        IN  /\ pair \in DOMAIN lastRegistered
            /\ heap[last.value].class = lastRegistered[pair]

LastRegistrationWins == [][ReRegistrationStep]_vars /\ []ResolvedToLatest

\* one record resolved under Listable before and after a second class was
\* registered for its value: first class, then second class
LastRegistrationWinsWitness ==
    /\ last.op = "getImpl"
    /\ last.protocolKey = ListableKey
    /\ DOMAIN implMap = {ListableKey}
    /\ Len(heap) = 2
    /\ heap[1] = [class |-> ImplForStringOne, v |-> last.obj]
    /\ heap[2] = [class |-> ImplForStringOneAgain, v |-> last.obj]
    /\ last.value = 2

----------------------------------------------------------------------------
(* C6. Cross-protocol isolation: a registration under one protocol key      *)
(* leaves the sub-mapping of every other protocol key unchanged, and one    *)
(* record resolved under two protocols yields, for each, the class          *)
(* registered under that protocol.                                          *)

OtherProtocolsUntouchedStep ==
    last'.op = "registerImpl" =>
        \A other \in ProtocolKeys \ {last'.protocolKey} :
            /\ MapHas(implMap', other) <=> MapHas(implMap, other)
            /\ MapHas(implMap, other) => implMap'[other] = implMap[other]

EachProtocolOwnClass ==
    \A a \in ProtocolKeys, b \in ProtocolKeys,
       subTypingKey \in SubTypingKeys, obj \in ObjRefs :
        LET id == discriminant(subTypingKey, obj)
        IN  (a # b /\ <<a, id>> \in DOMAIN lastRegistered /\ <<b, id>> \in DOMAIN lastRegistered) =>
              /\ ~resolve(a, subTypingKey, obj).threw
              /\ instanceOf(resolve(a, subTypingKey, obj)).class = lastRegistered[<<a, id>>]
              /\ ~resolve(b, subTypingKey, obj).threw
              /\ instanceOf(resolve(b, subTypingKey, obj)).class = lastRegistered[<<b, id>>]

CrossProtocolIsolation == [][OtherProtocolsUntouchedStep]_vars /\ []EachProtocolOwnClass

\* the same value '1' holds different classes under Listable and Printable,
\* and one record was resolved under both
CrossProtocolIsolationWitness ==
    /\ MapHas(implMap, ListableKey) /\ MapHas(implMap, PrintableKey)
    /\ MapHas(implMap[ListableKey], Str("1")) /\ MapHas(implMap[PrintableKey], Str("1"))
    /\ implMap[ListableKey][Str("1")] = ImplForStringOne
    /\ implMap[PrintableKey][Str("1")] = ImplForStringOneAgain
    /\ Len(heap) = 2
    /\ heap[1].v = heap[2].v
    /\ heap[1].class = ImplForStringOne
    /\ heap[2].class = ImplForStringOneAgain
    /\ last.op = "getImpl" /\ last.protocolKey = PrintableKey

----------------------------------------------------------------------------
(* C7. Monotonic growth: the registry starts empty, and no call, whether it *)
(* returns or throws, removes a protocol key or a (protocol, value) entry;  *)
(* a getImpl call that succeeds in a state succeeds in every later state.   *)

GrowthStep ==
    /\ DOMAIN implMap \subseteq DOMAIN implMap'
    /\ Entries(implMap) \subseteq Entries(implMap')
    /\ \A protocolKey \in ProtocolKeys, subTypingKey \in SubTypingKeys, obj \in ObjRefs :
         ~getImpl(implMap, objs, heap, protocolKey, subTypingKey, obj).threw =>
           ~getImpl(implMap', objs', heap', protocolKey, subTypingKey, obj).threw

MonotonicGrowth == (Entries(implMap) = {} /\ DOMAIN implMap = {}) /\ [][GrowthStep]_vars

\* three entries are present and the last call, a getImpl, threw
MonotonicGrowthWitness ==
    /\ Cardinality(Entries(implMap)) >= 3
    /\ Cardinality(DOMAIN implMap) = 2
    /\ last.op = "getImpl"
    /\ last.threw
    /\ Len(heap) >= 1

----------------------------------------------------------------------------
(* C8. Resolution only reads the registry: a getImpl call, returning or     *)
(* throwing either error, leaves the registry as it was; for an unknown     *)
(* protocol key it creates no sub-mapping.                                  *)

ResolveReadsOnlyStep ==
    last'.op = "getImpl" =>
        /\ implMap' = implMap
        /\ DOMAIN implMap' = DOMAIN implMap

ResolveLeavesRegistry ==
    \A protocolKey \in ProtocolKeys, subTypingKey \in SubTypingKeys, obj \in ObjRefs :
        LET out == resolve(protocolKey, subTypingKey, obj)
        IN  /\ out.implMap = implMap
            /\ (~MapHas(implMap, protocolKey)) => ~MapHas(out.implMap, protocolKey)

ResolutionIsPureRead == [][ResolveReadsOnlyStep]_vars /\ []ResolveLeavesRegistry

\* getImpl threw 'Protocol not found' for a key that still has no sub-mapping,
\* after an earlier getImpl had returned an instance
ResolutionIsPureReadWitness ==
    /\ last.op = "getImpl"
    /\ last.error = ProtocolNotFound(last.protocolKey)
    /\ ~MapHas(implMap, last.protocolKey)
    /\ Len(heap) >= 1

----------------------------------------------------------------------------
(* C9. registerImpl does not throw and changes exactly one entry: after it  *)
(* the entry of (protocolKey, subTypeId) is the class given, the            *)
(* sub-mapping of protocolKey exists, and every other entry is as before.   *)

SubTypeIds == { c.subtypeId : c \in ImplClasses } \ {Undefined}

RegisterImplFrame ==
    \A protocolKey \in ProtocolKeys, subTypeId \in SubTypeIds, impl \in ImplClasses :
        LET m == registerImpl(implMap, protocolKey, subTypeId, impl)
        IN  /\ DOMAIN m = DOMAIN implMap \cup {protocolKey}
            /\ MapHas(m[protocolKey], subTypeId)
            /\ m[protocolKey][subTypeId] = impl
            /\ Entries(m) = Entries(implMap) \cup {<<protocolKey, subTypeId>>}
            /\ \A p \in Entries(implMap) \ {<<protocolKey, subTypeId>>} :
                 m[p[1]][p[2]] = implMap[p[1]][p[2]]

RegisterImplStep ==
    (last'.op = "registerImpl" /\ ~Falsy(last'.impl.subtypeId)) =>
        /\ ~last'.threw
        /\ Entries(implMap') =
             Entries(implMap) \cup {<<last'.protocolKey, last'.impl.subtypeId>>}
        /\ implMap'[last'.protocolKey][last'.impl.subtypeId] = last'.impl
        /\ \A p \in Entries(implMap) \ {<<last'.protocolKey, last'.impl.subtypeId>>} :
             implMap'[p[1]][p[2]] = implMap[p[1]][p[2]]

RegisterChangesOneEntry == [][RegisterImplStep]_vars /\ []RegisterImplFrame

\* a registration created the sub-mapping of Printable while Listable held
\* two entries, which are still there
RegisterChangesOneEntryWitness ==
    /\ last.op = "registerImpl"
    /\ ~last.threw
    /\ last.protocolKey = PrintableKey
    /\ Cardinality(Entries(implMap)) = 3
    /\ DOMAIN implMap[PrintableKey] = {last.impl.subtypeId}

----------------------------------------------------------------------------
(* C10. No caching: every getImpl call that returns builds a new instance   *)
(* of the class the registry holds at that moment, so two resolutions of    *)
(* one record return two instances, and a class registered between them is  *)
(* the class of the second.                                                 *)

NewInstanceStep ==
    (last'.op = "getImpl" /\ ~last'.threw) =>
        LET id == GetProp(objs[last'.obj], last'.subTypingKey)
        IN  /\ last'.value \notin DOMAIN heap
            /\ last'.value = Len(heap')
            /\ MapHas(implMap, last'.protocolKey)
            /\ MapHas(implMap[last'.protocolKey], id)
            /\ heap' = Append(heap, [class |-> implMap[last'.protocolKey][id],
                                     v |-> last'.obj])

NoCaching == [][NewInstanceStep]_vars

\* the same record resolved twice in the same registry: two instances
NoCachingWitness ==
    /\ Len(heap) = 2
    /\ heap[1] = heap[2]
    /\ last.op = "getImpl"
    /\ last.value = 2

----------------------------------------------------------------------------
(* C11. Dispatch depends on the discriminant value alone: in one registry,  *)
(* for one protocol key and one field name, two records that hold the same  *)
(* value at that field get the same outcome from getImpl, the same class or *)
(* the same error, whatever their other fields are.                         *)

SameValueSameOutcome ==
    \A protocolKey \in ProtocolKeys, subTypingKey \in SubTypingKeys,
       o1 \in ObjRefs, o2 \in ObjRefs :
        discriminant(subTypingKey, o1) = discriminant(subTypingKey, o2) =>
            LET a == resolve(protocolKey, subTypingKey, o1)
                b == resolve(protocolKey, subTypingKey, o2)
            IN  /\ a.threw = b.threw
                /\ a.error = b.error
                /\ ~a.threw => instanceOf(a).class = instanceOf(b).class

\* the two records that share 'kind' = 1 and nothing else were both resolved
\* through 'kind', to the same class
SameValueSameOutcomeWitness ==
    /\ objs[1] # objs[2]
    /\ discriminant("kind", 1) = discriminant("kind", 2)
    /\ heap = << [class |-> ImplForNumberOne, v |-> 1],
                 [class |-> ImplForNumberOne, v |-> 2] >>
    /\ last.op = "getImpl" /\ last.obj = 2 /\ last.subTypingKey = "kind"

----------------------------------------------------------------------------
(* C12. Exact equality of discriminant values: getImpl returns the class    *)
(* registered under d only for a record whose value is exactly d; the       *)
(* string '1' and the number 1 are different keys, so registering one       *)
(* neither makes the other resolvable nor replaces its class.               *)

ExactKeyResolve ==
    \A protocolKey \in ProtocolKeys, subTypingKey \in SubTypingKeys, obj \in ObjRefs :
        LET out == resolve(protocolKey, subTypingKey, obj)
            id == discriminant(subTypingKey, obj)
        IN  /\ ~out.threw =>
                 /\ instanceOf(out).class.subtypeId = id
                 /\ <<protocolKey, id>> \in DOMAIN lastRegistered
            /\ <<protocolKey, id>> \notin DOMAIN lastRegistered => out.threw

ExactKeyStep ==
    (last'.op = "registerImpl" /\ ~last'.threw) =>
        \A e \in (SubTypeIds \cup DiscriminantValues) \ {last'.impl.subtypeId} :
            LET p == <<last'.protocolKey, e>>
            IN  /\ p \in Entries(implMap') <=> p \in Entries(implMap)
                /\ p \in Entries(implMap) => implMap'[p[1]][p[2]] = implMap[p[1]][p[2]]

ExactKeyMatch == [][ExactKeyStep]_vars /\ []ExactKeyResolve

\* Listable holds one class for '1' and another for 1, and the record that
\* has '1' at 'type' and 1 at 'kind' was resolved through each field
ExactKeyMatchWitness ==
    /\ toString(Str("1")) = toString(Num(1))
    /\ MapHas(implMap, ListableKey)
    /\ DOMAIN implMap[ListableKey] = {Str("1"), Num(1)}
    /\ implMap[ListableKey][Str("1")] = ImplForStringOne
    /\ implMap[ListableKey][Num(1)] = ImplForNumberOne
    /\ heap = << [class |-> ImplForStringOne, v |-> 1],
                 [class |-> ImplForNumberOne, v |-> 1] >>
    /\ last.op = "getImpl" /\ last.protocolKey = ListableKey

----------------------------------------------------------------------------
(* C13. The registry is shared, not namespaced by caller: registrations     *)
(* made through two registration functions generated for the same protocol  *)
(* key go into the same sub-mapping, so each is seen by every getImpl for   *)
(* that key, and a registration through one function replaces the class     *)
(* registered for the same value through the other.                         *)

\* the protocol key each registration function was generated for
GeneratedFor(fn) == IF fn = 3 THEN PrintableKey ELSE ListableKey

SharedRegistryStep ==
    (last'.op = "registerImpl" /\ ~last'.threw) =>
        LET protocolKey == GeneratedFor(last'.fn)
            id == last'.impl.subtypeId
        IN  /\ MapHas(implMap', protocolKey)
            /\ MapHas(implMap'[protocolKey], id)
            /\ implMap'[protocolKey][id] = last'.impl
            /\ \A subTypingKey \in SubTypingKeys, obj \in ObjRefs :
                 GetProp(objs'[obj], subTypingKey) = id =>
                   LET out == getImpl(implMap', objs', heap', protocolKey, subTypingKey, obj)
                   IN  ~out.threw /\ instanceOf(out).class = last'.impl

SupersededAcrossRegistrars ==
    superseded.op = "registerImpl" =>
        /\ last.op = "registerImpl"
        /\ superseded.fn # last.fn
        /\ GeneratedFor(superseded.fn) = GeneratedFor(last.fn)
        /\ superseded.impl.subtypeId = last.impl.subtypeId
        /\ implMap[GeneratedFor(last.fn)][last.impl.subtypeId] = last.impl
        /\ lastRegistered[<<GeneratedFor(last.fn), last.impl.subtypeId>>] = last.impl

SharedRegistry == [][SharedRegistryStep]_vars /\ []SupersededAcrossRegistrars

\* the class registered for '1' through the first function of Listable was
\* replaced by another class registered through the second
SharedRegistryWitness ==
    /\ superseded.op = "registerImpl"
    /\ superseded.fn = 1 /\ superseded.impl = ImplForStringOne
    /\ last.fn = 2 /\ last.impl = ImplForStringOneAgain
    /\ implMap[ListableKey][Str("1")] = ImplForStringOneAgain

----------------------------------------------------------------------------
(* C14. On success the class is constructed on the record itself: the       *)
(* instance refers to the very record passed, getImpl leaves every record   *)
(* as it was, and no field but the discriminant is looked at, so a record   *)
(* of another shape with a registered discriminant value resolves.          *)

WrapsRecordStep ==
    last'.op = "getImpl" =>
        /\ objs' = objs
        /\ ~last'.threw =>
             /\ last'.value \in DOMAIN heap'
             /\ heap'[last'.value].v = last'.obj

ShapeNotChecked ==
    \A protocolKey \in ProtocolKeys, subTypingKey \in SubTypingKeys, obj \in ObjRefs :
        <<protocolKey, discriminant(subTypingKey, obj)>> \in Entries(implMap) =>
            LET out == resolve(protocolKey, subTypingKey, obj)
            IN  /\ ~out.threw
                /\ instanceOf(out).v = obj

WrapsTheRecord == [][WrapsRecordStep]_vars /\ [](ShapeNotChecked /\ objs = InitialObjs)

\* the record that has neither 'type' nor 'ary' was resolved through 'kind',
\* and the instance refers to it
WrapsTheRecordWitness ==
    /\ last.op = "getImpl" /\ ~last.threw
    /\ last.obj = 2
    /\ DOMAIN objs[2] = {"kind", "rec"}
    /\ heap[last.value] = [class |-> ImplForNumberOne, v |-> 2]
    /\ Len(heap) = 1

----------------------------------------------------------------------------
(* C15. Registration must precede use, and a failure leaves nothing behind: *)
(* getImpl for a pair never registered throws; when the class it missed is  *)
(* registered right after a failed getImpl, the same call repeated succeeds *)
(* and returns an instance of that class.                                   *)

MissingRegistrationFails ==
    \A protocolKey \in ProtocolKeys, subTypingKey \in SubTypingKeys, obj \in ObjRefs :
        <<protocolKey, discriminant(subTypingKey, obj)>> \notin DOMAIN lastRegistered =>
            resolve(protocolKey, subTypingKey, obj).threw

RetryAfterRegistrationStep ==
    (/\ last.op = "getImpl" /\ last.threw
     /\ last'.op = "registerImpl" /\ ~last'.threw
     /\ last'.protocolKey = last.protocolKey
     /\ last'.impl.subtypeId = discriminant(last.subTypingKey, last.obj))
    => LET out == getImpl(implMap', objs', heap', last.protocolKey,
                          last.subTypingKey, last.obj)
       IN  /\ ~out.threw
           /\ instanceOf(out) = [class |-> last'.impl, v |-> last.obj]

RetriedCallSucceeds ==
    (answered.op = "getImpl" /\ last.op = "getImpl") =>
        /\ answered.threw
        /\ answered.error \in
             { ProtocolNotFound(answered.protocolKey),
               ImplementationNotFound(discriminant(answered.subTypingKey, answered.obj)) }
        /\ last.protocolKey = answered.protocolKey
        /\ last.subTypingKey = answered.subTypingKey
        /\ last.obj = answered.obj
        /\ ~last.threw
        /\ heap[last.value] =
             [class |-> lastRegistered[<<last.protocolKey,
                                         discriminant(last.subTypingKey, last.obj)>>],
              v |-> last.obj]

FailureNotRemembered ==
    [][RetryAfterRegistrationStep]_vars /\ [](MissingRegistrationFails /\ RetriedCallSucceeds)

\* getImpl on the record tagged '1' threw under Listable, which already had a
\* class for another value; the class for '1' was registered; the same call
\* then returned
FailureNotRememberedWitness ==
    /\ answered.op = "getImpl"
    /\ answered.error = ImplementationNotFound(Str("1"))
    /\ answered.obj = 1 /\ answered.subTypingKey = "type"
    /\ last.op = "getImpl" /\ ~last.threw
    /\ last.obj = 1 /\ last.subTypingKey = "type"
    /\ last.protocolKey = answered.protocolKey

====
